---- MODULE Spec2Model ----
(***************************************************************************)
(* A model of the example binaries of the rust-tut repository:             *)
(*   src/bin/impl_struct.rs    Rect { len: u32, breadth: u32 }, area, peri  *)
(*   src/bin/enum_pt_match.rs  enum Shape, calc_area (f64 arithmetic)       *)
(*   src/bin/cursor_notes.rs   Point (i32), the thread + channel demo       *)
(*                                                                         *)
(* Machine integers and IEEE-754 doubles are modelled at their real width. *)
(* TLC's own integers are 32-bit, so a natural number is a little-endian   *)
(* sequence of bits without a most-significant zero (<<>> is 0), and the   *)
(* arithmetic below is exact arithmetic over such sequences.               *)
(***************************************************************************)
EXTENDS Integers, Sequences, FiniteSets

Max(a, b) == IF a >= b THEN a ELSE b
Min(a, b) == IF a <= b THEN a ELSE b

(***************************************************************************)
(* Exact natural numbers: little-endian sequences of bytes (limbs in       *)
(* 0..255) without a most-significant zero byte; <<>> is 0.                *)
(***************************************************************************)
RECURSIVE FromNat(_)
FromNat(n) == IF n = 0 THEN <<>> ELSE <<n % 256>> \o FromNat(n \div 256)

RECURSIVE Trim(_)
Trim(a) ==
    IF a = <<>> THEN a
    ELSE IF a[Len(a)] = 0 THEN Trim(SubSeq(a, 1, Len(a) - 1))
    ELSE a

LimbAt(a, i) == IF i >= 1 /\ i <= Len(a) THEN a[i] ELSE 0

\* the number of significant bits of a limb, and of a number
RECURSIVE LimbBits(_)
LimbBits(d) == IF d = 0 THEN 0 ELSE 1 + LimbBits(d \div 2)

BLen(a) == IF a = <<>> THEN 0 ELSE 8 * (Len(a) - 1) + LimbBits(a[Len(a)])

RECURSIVE AddFrom(_, _, _, _)
AddFrom(a, b, i, c) ==
    IF i > Len(a) /\ i > Len(b)
    THEN IF c = 0 THEN <<>> ELSE <<c>>
    ELSE <<(LimbAt(a, i) + LimbAt(b, i) + c) % 256>>
             \o AddFrom(a, b, i + 1, (LimbAt(a, i) + LimbAt(b, i) + c) \div 256)

BAdd(a, b) == AddFrom(a, b, 1, 0)

\* a < b, a = b, a > b  as -1, 0, 1
RECURSIVE CmpFrom(_, _, _)
CmpFrom(a, b, i) ==
    IF i = 0 THEN 0
    ELSE IF a[i] < b[i] THEN -1
    ELSE IF a[i] > b[i] THEN 1
    ELSE CmpFrom(a, b, i - 1)

BCmp(a, b) ==
    IF Len(a) < Len(b) THEN -1
    ELSE IF Len(a) > Len(b) THEN 1
    ELSE CmpFrom(a, b, Len(a))

BLeq(a, b) == BCmp(a, b) <= 0
BLt(a, b) == BCmp(a, b) < 0

\* a - b for a >= b
RECURSIVE SubFrom(_, _, _, _)
SubFrom(a, b, i, borrow) ==
    IF i > Len(a) THEN <<>>
    ELSE <<(LimbAt(a, i) - LimbAt(b, i) - borrow + 256) % 256>>
             \o SubFrom(a, b, i + 1,
                        IF LimbAt(a, i) - LimbAt(b, i) - borrow < 0 THEN 1 ELSE 0)

BSub(a, b) == Trim(SubFrom(a, b, 1, 0))

\* a * d for a limb-sized d
RECURSIVE ScaleFrom(_, _, _, _)
ScaleFrom(a, d, i, c) ==
    IF i > Len(a)
    THEN IF c = 0 THEN <<>> ELSE <<c>>
    ELSE <<(a[i] * d + c) % 256>> \o ScaleFrom(a, d, i + 1, (a[i] * d + c) \div 256)

BScale(a, d) == IF d = 0 THEN <<>> ELSE ScaleFrom(a, d, 1, 0)

\* floor(a / d) and a mod d for a small d > 0, by short division
RECURSIVE DivFrom(_, _, _, _)
DivFrom(a, d, i, r) ==
    IF i = 0 THEN [quot |-> <<>>, rem |-> r]
    ELSE LET rest == DivFrom(a, d, i - 1, (r * 256 + a[i]) % d)
         IN  [quot |-> rest.quot \o <<(r * 256 + a[i]) \div d>>, rem |-> rest.rem]

BDivSmall(a, d) ==
    LET qr == DivFrom(a, d, Len(a), 0)
    IN  [quot |-> Trim(qr.quot), rem |-> qr.rem]

\* a * 2^k, floor(a / 2^k), a mod 2^k
BShl(a, k) ==
    IF a = <<>> THEN a
    ELSE [i \in 1..(k \div 8) |-> 0] \o BScale(a, 2^(k % 8))

BShr(a, k) ==
    IF k \div 8 >= Len(a) THEN <<>>
    ELSE BDivSmall(SubSeq(a, (k \div 8) + 1, Len(a)), 2^(k % 8)).quot

BLow(a, k) == BSub(a, BShl(BShr(a, k), k))

RECURSIVE MulFrom(_, _, _)
MulFrom(a, b, i) ==
    IF i > Len(b) THEN <<>>
    ELSE BAdd(BScale(a, b[i]), BShl(MulFrom(a, b, i + 1), 8))

BMul(a, b) == IF a = <<>> \/ b = <<>> THEN <<>> ELSE Trim(MulFrom(a, b, 1))

RECURSIVE BPow(_, _)
BPow(a, k) == IF k = 0 THEN <<1>> ELSE BMul(a, BPow(a, k - 1))

Pow2(k) == BShl(<<1>>, k)

IsOdd(a) == a # <<>> /\ a[1] % 2 = 1

\* the number of least-significant zero bits of a # 0
RECURSIVE LimbTrailingZeros(_)
LimbTrailingZeros(d) == IF d % 2 = 1 THEN 0 ELSE 1 + LimbTrailingZeros(d \div 2)

RECURSIVE TrailingZeros(_)
TrailingZeros(a) ==
    IF a = <<>> THEN 0
    ELSE IF a[1] = 0 THEN 8 + TrailingZeros(Tail(a))
    ELSE LimbTrailingZeros(a[1])

(***************************************************************************)
(* Machine integers.  A primitive operation whose exact result does not   *)
(* fit the type panics when the build has overflow checks (the debug       *)
(* profile) and wraps modulo 2^32 when it has none (the release profile).  *)
(***************************************************************************)
U32Bits == 32

InU32(a) == BLen(a) <= U32Bits
WrapU32(a) == BLow(a, U32Bits)
U32Max == BSub(Pow2(U32Bits), <<1>>)

Returned(v) == [kind |-> "ok", val |-> v]
Panicked == [kind |-> "panic"]
NotCalled == [kind |-> "none"]

\* U32Op with the overflow handled by saturation, as u32::saturating_* would
U32OpSaturating(v, checks) == IF InU32(v) THEN Returned(v) ELSE Returned(U32Max)

\* a u32 operation whose exact result is v
U32Op(v, checks) ==
    IF InU32(v) THEN Returned(v)
    ELSE IF checks THEN Panicked
    ELSE Returned(WrapU32(v))

(***************************************************************************)
(* impl_struct.rs: struct Rect and its two methods.                        *)
(***************************************************************************)
Rect(l, b) == [len |-> l, breadth |-> b]

\* area with the operands added instead of multiplied
area_sum(self, checks) == U32Op(BAdd(self.len, self.breadth), checks)

\* fn area(&self) -> u32 { self.len * self.breadth }
area(self, checks) == U32Op(BMul(self.len, self.breadth), checks)

\* peri with only the length doubled
peri_unbracketed(self, checks) ==
    LET twice == U32Op(BMul(FromNat(2), self.len), checks)
    IN  IF twice.kind = "panic" THEN Panicked
        ELSE U32Op(BAdd(twice.val, self.breadth), checks)

\* fn peri(&self) -> u32 { 2 * (self.len + self.breadth) }
peri(self, checks) ==
    LET sum == U32Op(BAdd(self.len, self.breadth), checks)
    IN  IF sum.kind = "panic" THEN Panicked
        ELSE U32Op(BMul(FromNat(2), sum.val), checks)

\* let phone = Rect{ len: 20, breadth: 40 };
MainRect == Rect(FromNat(20), FromNat(40))

(***************************************************************************)
(* IEEE-754 binary64 (f64).  A finite non-zero value is (-1)^neg * m * 2^e *)
(* with m odd, so that equal values are equal records; zeros and           *)
(* infinities carry a sign, and there is one NaN.                          *)
(***************************************************************************)
F64MantBits == 53
F64MaxExp == 1023
F64MinExp == -1074

FZero(neg) == [cls |-> "zero", neg |-> neg, m |-> <<>>, e |-> 0]
FInf(neg) == [cls |-> "inf", neg |-> neg, m |-> <<>>, e |-> 0]
FNaN == [cls |-> "nan", neg |-> FALSE, m |-> <<>>, e |-> 0]

\* the f64 for the exact value m * 2^e, which is known to need no rounding
FFinite(neg, m, e) ==
    IF m = <<>> THEN FZero(neg)
    ELSE IF e + BLen(m) - 1 > F64MaxExp THEN FInf(neg)
    ELSE [cls |-> "fin", neg |-> neg,
          m |-> BShr(m, TrailingZeros(m)), e |-> e + TrailingZeros(m)]

\* the f64 nearest to the exact value m * 2^e, ties to even
RoundF64(neg, m, e) ==
    IF m = <<>> THEN FZero(neg)
    ELSE LET ulp == Max(e + BLen(m) - F64MantBits, F64MinExp)
         IN  IF ulp <= e THEN FFinite(neg, m, e)
             ELSE LET keep == BShr(m, ulp - e)
                      rest == BCmp(BLow(m, ulp - e), Pow2(ulp - e - 1))
                  IN  IF rest > 0 \/ (rest = 0 /\ IsOdd(keep))
                      THEN FFinite(neg, BAdd(keep, <<1>>), ulp)
                      ELSE FFinite(neg, keep, ulp)

\* a * b on f64
FMul(a, b) ==
    IF a.cls = "nan" \/ b.cls = "nan" THEN FNaN
    ELSE IF (a.cls = "inf" /\ b.cls = "zero") \/ (a.cls = "zero" /\ b.cls = "inf")
    THEN FNaN
    ELSE IF a.cls = "inf" \/ b.cls = "inf" THEN FInf(a.neg # b.neg)
    ELSE IF a.cls = "zero" \/ b.cls = "zero" THEN FZero(a.neg # b.neg)
    ELSE RoundF64(a.neg # b.neg, BMul(a.m, b.m), a.e + b.e)

FNeg(a) == IF a.cls = "nan" THEN a ELSE [a EXCEPT !.neg = ~a.neg]

\* the value of the decimal literal n / 10^k (n.0 for k = 0): the nearest f64.
\* The quotient is taken to 80 fractional bits with a sticky bit below them.
F64Lit(n, k) ==
    LET qr == BDivSmall(BShl(FromNat(n), 80), 10^k)
        sticky == IF qr.rem = 0 THEN <<>> ELSE <<1>>
    IN  RoundF64(FALSE, BAdd(BShl(qr.quot, 1), sticky), -81)

IsF64(v) ==
    /\ DOMAIN v = {"cls", "neg", "m", "e"}
    /\ v.cls \in {"zero", "fin", "inf", "nan"}
    /\ v.neg \in BOOLEAN
    /\ v.cls = "fin" =>
          /\ IsOdd(v.m)
          /\ BLen(v.m) <= F64MantBits
          /\ v.e >= F64MinExp
          /\ v.e + BLen(v.m) - 1 <= F64MaxExp
    /\ v.cls # "fin" => v.m = <<>> /\ v.e = 0

FNonNeg(v) == v.cls # "nan" /\ ~v.neg

(***************************************************************************)
(* enum_pt_match.rs: enum Shape and calc_area.                             *)
(***************************************************************************)
ShapeRect(a, b) == [tag |-> "Rect", a |-> a, b |-> b]
ShapeCircle(r) == [tag |-> "Circle", r |-> r]

\* a higher-precision pi in place of the literal 3.14
K_pi == F64Lit(314159, 5)

\* the literal 3.14 of the Circle arm
K == F64Lit(314, 2)

\* the arms of the match, in source order
MatchArms == <<"Rect", "Circle">>
MatchingArms(shape) == {i \in DOMAIN MatchArms : shape.tag = MatchArms[i]}

NoArm == [kind |-> "unmatched"]

\* calc_area with the Rect arm squaring its first field
calc_area_square(shape) ==
    IF shape.tag = "Rect" THEN Returned(FMul(shape.a, shape.a))
    ELSE IF shape.tag = "Circle" THEN Returned(FMul(FMul(K, shape.r), shape.r))
    ELSE NoArm

\* calc_area with no arm for Circle
calc_area_partial(shape) ==
    IF shape.tag = "Rect" THEN Returned(FMul(shape.a, shape.b))
    ELSE NoArm

\* fn calc_area(shape: Shape) -> f64
calc_area(shape) ==
    IF shape.tag = "Rect" THEN Returned(FMul(shape.a, shape.b))
    ELSE IF shape.tag = "Circle" THEN Returned(FMul(FMul(K, shape.r), shape.r))
    ELSE NoArm

(***************************************************************************)
(* i32: exact integers are a sign and a magnitude, zero being positive.    *)
(***************************************************************************)
I32Bits == 32

ZInt(neg, mag) == [neg |-> neg /\ mag # <<>>, mag |-> mag]
ZOf(n) == ZInt(n < 0, FromNat(IF n < 0 THEN -n ELSE n))
ZNeg(x) == ZInt(~x.neg, x.mag)
ZAbs(x) == ZInt(FALSE, x.mag)

ZAdd(x, y) ==
    IF x.neg = y.neg THEN ZInt(x.neg, BAdd(x.mag, y.mag))
    ELSE IF BLeq(y.mag, x.mag) THEN ZInt(x.neg, BSub(x.mag, y.mag))
    ELSE ZInt(y.neg, BSub(y.mag, x.mag))

I32Min == ZInt(TRUE, Pow2(I32Bits - 1))
I32Max == ZInt(FALSE, BSub(Pow2(I32Bits - 1), <<1>>))

InI32(x) ==
    IF x.neg THEN BLeq(x.mag, Pow2(I32Bits - 1)) ELSE BLt(x.mag, Pow2(I32Bits - 1))

\* the two's complement value of x modulo 2^32
WrapI32(x) ==
    LET low == BLow(x.mag, I32Bits)
        u == IF x.neg /\ low # <<>> THEN BSub(Pow2(I32Bits), low) ELSE low
    IN  IF BLt(u, Pow2(I32Bits - 1)) THEN ZInt(FALSE, u)
        ELSE ZInt(TRUE, BSub(Pow2(I32Bits), u))

\* an i32 operation whose exact result is v
I32Op(v, checks) ==
    IF InI32(v) THEN Returned(v)
    ELSE IF checks THEN Panicked
    ELSE Returned(WrapI32(v))

(***************************************************************************)
(* cursor_notes.rs, section 8: struct Point and its methods.               *)
(***************************************************************************)
Point(x, y) == [x |-> x, y |-> y]

\* fn new(x: i32, y: i32) -> Self { Self { x, y } }
new(x, y) == Point(x, y)

\* manhattan_len without the abs calls
manhattan_len_signed(self, checks) == I32Op(ZAdd(self.x, self.y), checks)

\* fn manhattan_len(&self) -> i32 { self.x.abs() + self.y.abs() }
manhattan_len(self, checks) ==
    LET ax == I32Op(ZAbs(self.x), checks)
        ay == I32Op(ZAbs(self.y), checks)
    IN  IF ax.kind = "panic" \/ ay.kind = "panic" THEN Panicked
        ELSE I32Op(ZAdd(ax.val, ay.val), checks)

\* translate adding dx to both coordinates
translate_dx_twice(self, dx, dy, checks) ==
    LET nx == I32Op(ZAdd(self.x, dx), checks)
        ny == I32Op(ZAdd(self.y, dx), checks)
    IN  IF nx.kind = "panic" THEN [self |-> self, panic |-> TRUE]
        ELSE IF ny.kind = "panic"
        THEN [self |-> Point(nx.val, self.y), panic |-> TRUE]
        ELSE [self |-> Point(nx.val, ny.val), panic |-> FALSE]

\* fn translate(&mut self, dx: i32, dy: i32) { self.x += dx; self.y += dy; }
\* The point after the call, and whether the call panicked on the way.
translate(self, dx, dy, checks) ==
    LET nx == I32Op(ZAdd(self.x, dx), checks)
        ny == I32Op(ZAdd(self.y, dy), checks)
    IN  IF nx.kind = "panic" THEN [self |-> self, panic |-> TRUE]
        ELSE IF ny.kind = "panic"
        THEN [self |-> Point(nx.val, self.y), panic |-> TRUE]
        ELSE [self |-> Point(nx.val, ny.val), panic |-> FALSE]

(***************************************************************************)
(* cursor_notes.rs, section 20: the thread and channel demo.               *)
(***************************************************************************)
\* thread::sleep(Duration::from_millis(50))
SleepMillis == 50

\* "hello from thread".to_string()
Hello == "hello from thread"

RecvError == [kind |-> "err"]

(***************************************************************************)
(* result.rs: read_from_file_rust.  A String is its UTF-8 bytes; a path    *)
(* names nothing, a directory, a file the process may not read, or a file  *)
(* with bytes.                                                             *)
(***************************************************************************)
Absent == [kind |-> "absent", bytes |-> <<>>]
Directory == [kind |-> "dir", bytes |-> <<>>]
Denied == [kind |-> "denied", bytes |-> <<>>]
File(bytes) == [kind |-> "file", bytes |-> bytes]

Ok(v) == [kind |-> "ok", val |-> v]
Err(e) == [kind |-> "err", err |-> e]

Cont(b) == b >= 128 /\ b <= 191

\* the length of the UTF-8 sequence that starts at b[i], or 0 when none does
Utf8SeqLen(b, i) ==
    LET b0 == b[i]
        b1 == LimbAt(b, i + 1)
        b2 == LimbAt(b, i + 2)
        b3 == LimbAt(b, i + 3)
        has(n) == i + n - 1 <= Len(b)
    IN  IF b0 <= 127 THEN 1
        ELSE IF b0 >= 194 /\ b0 <= 223
        THEN IF has(2) /\ Cont(b1) THEN 2 ELSE 0
        ELSE IF b0 >= 224 /\ b0 <= 239
        THEN IF /\ has(3)
                /\ Cont(b1) /\ Cont(b2)
                /\ b0 = 224 => b1 >= 160
                /\ b0 = 237 => b1 <= 159
             THEN 3 ELSE 0
        ELSE IF b0 >= 240 /\ b0 <= 244
        THEN IF /\ has(4)
                /\ Cont(b1) /\ Cont(b2) /\ Cont(b3)
                /\ b0 = 240 => b1 >= 144
                /\ b0 = 244 => b1 <= 143
             THEN 4 ELSE 0
        ELSE 0

\* the bytes from b[i] on are well-formed UTF-8 (core::str::from_utf8)
RECURSIVE Utf8From(_, _)
Utf8From(b, i) ==
    IF i > Len(b) THEN TRUE
    ELSE IF Utf8SeqLen(b, i) = 0 THEN FALSE
    ELSE Utf8From(b, i + Utf8SeqLen(b, i))

IsUtf8(b) == Utf8From(b, 1)

\* std::fs::read_to_string(file_path): the open fails, the read fails, the
\* bytes are not UTF-8, or the contents are returned
read_to_string(fsys, file_path, fault) ==
    LET f == IF file_path \in DOMAIN fsys THEN fsys[file_path] ELSE Absent
    IN  IF f.kind = "absent" THEN Err("NotFound")
        ELSE IF f.kind = "denied" THEN Err("PermissionDenied")
        ELSE IF f.kind = "dir" THEN Err("IsADirectory")
        ELSE IF fault THEN Err("Other")
        ELSE IF ~IsUtf8(f.bytes) THEN Err("InvalidData")
        ELSE Ok(f.bytes)

\* String::from("File not present!")
FileNotPresent == <<70, 105, 108, 101, 32, 110, 111, 116, 32, 112, 114, 101, 115, 101, 110, 116, 33>>

\* String::from("rust.txt")
MainPath == "rust.txt"

\* read_from_file_rust with result.unwrap() in place of the match
read_from_file_rust_unwrap(fsys, file_path, fault) ==
    LET result == read_to_string(fsys, file_path, fault)
    IN  IF result.kind = "ok" THEN Returned(result.val) ELSE Panicked

\* fn read_from_file_rust(file_path: String) -> String
read_from_file_rust(fsys, file_path, fault) ==
    LET result == read_to_string(fsys, file_path, fault)
    IN  IF result.kind = "ok" THEN Returned(result.val)
        ELSE Returned(FileNotPresent)

\* standard output accepts every byte written to it, or only the first
\* room bytes (a full disk, a file size limit, a pipe whose reader goes away)
Unlimited == [limited |-> FALSE, room |-> 0]
Room(n) == [limited |-> TRUE, room |-> n]

\* how many bytes of an n-byte write go through after sofar bytes have
Accepted(cap, sofar, n) ==
    IF cap.limited THEN Min(n, Max(cap.room - sofar, 0)) ELSE n

\* println! panics when standard output does not take the whole line
PrintPanics(cap, sofar, n) == Accepted(cap, sofar, n) < n

\* println!("{}", ans): ans and a newline are written as far as standard
\* output accepts them, and println! panics when that is not the whole line
println(out, str, cap) ==
    LET line == str \o <<10>>
        k == Accepted(cap, Len(out), Len(line))
    IN  [out |-> out \o SubSeq(line, 1, k), panic |-> k < Len(line)]

(***************************************************************************)
(* cursor_notes.rs, smart_pointers(): Mutex<i32>.  A mutex has at most one *)
(* holder and is poisoned when a guard is dropped while its thread unwinds.*)
(***************************************************************************)
NoMutex == [holder |-> "none", poisoned |-> FALSE, val |-> ZOf(0)]

\* Mutex::new(v)
MutexNew(v) == [holder |-> "none", poisoned |-> FALSE, val |-> v]

\* lock() can return once nobody holds the mutex
CanLock(m) == m.holder = "none"

\* lock().unwrap() panics when the mutex is poisoned
LockPanics(m) == m.poisoned

\* the guard is held by who
Locked(m, who) == [m EXCEPT !.holder = who]

\* the guard is dropped, during a panic or not
Unlocked(m, panicking) == [m EXCEPT !.holder = "none", !.poisoned = m.poisoned \/ panicking]

\* println!("name={}", v)
Line(name, v) == [name |-> name, val |-> v]

\* the number of decimal digits of a magnitude
RECURSIVE DecDigits(_)
DecDigits(mag) ==
    IF BLt(mag, <<10>>) THEN 1 ELSE 1 + DecDigits(BDivSmall(mag, 10).quot)

\* the length of an i32 as {} formats it
DecLen(v) == (IF v.neg THEN 1 ELSE 0) + DecDigits(v.mag)

\* the bytes of a printed line: the name, "=", the number and a newline
LineBytes(line) == Len(line.name) + 1 + DecLen(line.val) + 1

\* the bytes of the lines printed so far
RECURSIVE OutBytes(_)
OutBytes(out) ==
    IF out = <<>> THEN 0 ELSE LineBytes(Head(out)) + OutBytes(Tail(out))

\* the bytes of println!("got: {}", msg)
GotBytes(m) == Len("got: ") + Len(m) + 1

(***************************************************************************)
(* The explored inputs.                                                    *)
(***************************************************************************)
MaxSmall == 3
MaxCalls == 3
MaxDim == 7
MaxCoord == 2
MaxOps == 3

MaxFileLen == 3
MaxRoom == 18

U32Inputs ==
    {FromNat(n) : n \in 0..MaxSmall}
        \cup {FromNat(20), FromNat(40), FromNat(65535), FromNat(65536),
              FromNat(65537), FromNat(2147483647), Pow2(U32Bits - 1), U32Max}

F64Inputs ==
    {F64Lit(n, 0) : n \in 0..MaxDim}
        \cup {F64Lit(5, 1), F64Lit(15, 1), F64Lit(1, 1), F64Lit(7, 0),
              FNeg(F64Lit(2, 0)), FZero(TRUE),
              FFinite(FALSE, <<1>>, F64MaxExp), FFinite(FALSE, <<1>>, F64MinExp),
              FInf(FALSE), FNaN}

ShapeInputs ==
    {ShapeRect(a, b) : a \in F64Inputs, b \in F64Inputs}
        \cup {ShapeCircle(r) : r \in F64Inputs}

I32Inputs == {ZOf(n) : n \in (-MaxCoord)..MaxCoord} \cup {I32Min, I32Max}

DeltaInputs == {<<ZOf(1), ZOf(-3)>>, <<ZOf(3), ZOf(4)>>, <<ZOf(-1), ZOf(3)>>}

RECURSIVE BytesUpTo(_)
BytesUpTo(n) ==
    IF n = 0 THEN {<<>>}
    ELSE BytesUpTo(n - 1)
            \cup {<<b>> \o t : b \in {97, 195, 169, 255}, t \in {u \in BytesUpTo(n - 1) : Len(u) = n - 1}}

StdoutInputs == {Unlimited} \cup {Room(n) : n \in 0..MaxRoom}

FileInputs ==
    {Absent, Directory, Denied, File(FileNotPresent)}
        \cup {File(b) : b \in BytesUpTo(MaxFileLen)}

VARIABLES
    bin,              \* the binary (or the demo function) that runs
    overflow_checks,  \* the build profile: TRUE debug, FALSE release
    stdout_cap,       \* how much the process's standard output accepts
    aborted,          \* the run died of a panic
    rect,             \* impl_struct: the Rect record
    area_ret,         \* impl_struct: what the latest call of area returned
    peri_ret,         \* impl_struct: what the latest call of peri returned
    first_area,       \* impl_struct: what the first call of area returned
    first_peri,       \* impl_struct: what the first call of peri returned
    calls,            \* impl_struct: the number of method calls made
    shape,            \* enum_pt_match: the Shape passed to calc_area
    area_val,         \* enum_pt_match: what calc_area returned
    p,                \* Point: the point
    p0,               \* Point: the point as constructed
    sum_d,            \* Point: the exact sums of the dx and of the dy passed so far
    wrapped,          \* Point: some translate so far left the i32 range
    tr_from,          \* Point: the point before the latest translate
    tr_d,             \* Point: the <<dx, dy>> of the latest translate
    len_of,           \* Point: the point before the latest manhattan_len
    len_ret,          \* Point: what the latest manhattan_len returned
    ops,              \* Point: the methods called so far, latest first
    main_pc,          \* concurrency: where the main thread is
    thr_pc,           \* concurrency: where the spawned thread is
    chan,             \* concurrency: the messages in the channel
    senders,          \* concurrency: the live Sender handles
    receiver,         \* concurrency: the Receiver is alive
    sleep_left,       \* concurrency: milliseconds of sleep left
    msg,              \* concurrency: what recv returned
    sent,             \* concurrency: the number of messages sent
    received,         \* concurrency: the number of messages received
    fs,               \* result: what each path names
    io_fault,         \* result: reading the file fails part-way
    ans,              \* result: what read_from_file_rust returned
    stdout,           \* result: the bytes written to standard output
    sp_main,          \* smart_pointers: the main thread's next statement
    sp_thr,           \* smart_pointers: the spawned thread's next statement
    mutex,            \* smart_pointers: the Mutex behind shared
    arc_strong,       \* smart_pointers: the Arc's strong count
    rc_strong,        \* smart_pointers: the Rc's strong count
    cell,             \* smart_pointers: the RefCell's value
    incs,             \* smart_pointers: the increments the thread has made
    shared_read,      \* smart_pointers: what the main thread read under the lock
    sp_out            \* smart_pointers: the values printed, in order

buildVars == <<bin, overflow_checks, stdout_cap>>
rectVars == <<rect, area_ret, peri_ret, first_area, first_peri, calls>>
shapeVars == <<shape, area_val>>
pointVars == <<p, p0, sum_d, wrapped, tr_from, tr_d, len_of, len_ret, ops>>
concVars == <<main_pc, thr_pc, chan, senders, receiver, sleep_left, msg, sent, received>>
fileVars == <<fs, io_fault, ans, stdout>>
smartVars == <<sp_main, sp_thr, mutex, arc_strong, rc_strong, cell, incs, shared_read, sp_out>>
vars == <<buildVars, aborted, rectVars, shapeVars, pointVars, concVars, fileVars, smartVars>>
\* what the concurrency demo leaves alone
offConc == <<buildVars, rectVars, shapeVars, pointVars, fileVars, smartVars>>
\* what a step of smart_pointers leaves alone
offSmart == <<buildVars, rectVars, shapeVars, pointVars, fileVars, concVars>>

ZeroPoint == Point(ZOf(0), ZOf(0))

RectOff ==
    /\ rect = Rect(<<>>, <<>>)
    /\ area_ret = NotCalled
    /\ peri_ret = NotCalled
    /\ first_area = NotCalled
    /\ first_peri = NotCalled
    /\ calls = 0

ShapeOff ==
    /\ shape = ShapeCircle(FZero(FALSE))
    /\ area_val = NotCalled

PointOff ==
    /\ p = ZeroPoint
    /\ p0 = ZeroPoint
    /\ sum_d = <<ZOf(0), ZOf(0)>>
    /\ wrapped = FALSE
    /\ tr_from = ZeroPoint
    /\ tr_d = <<ZOf(0), ZOf(0)>>
    /\ len_of = ZeroPoint
    /\ len_ret = NotCalled
    /\ ops = <<>>

ConcOff ==
    /\ main_pc = "off"
    /\ thr_pc = "off"
    /\ chan = <<>>
    /\ senders = 0
    /\ receiver = FALSE
    /\ sleep_left = 0
    /\ msg = NotCalled
    /\ sent = 0
    /\ received = 0

FileOff ==
    /\ fs = [path \in {MainPath} |-> Absent]
    /\ io_fault = FALSE
    /\ ans = NotCalled
    /\ stdout = <<>>

SmartOff ==
    /\ sp_main = "off"
    /\ sp_thr = "unborn"
    /\ mutex = NoMutex
    /\ arc_strong = 0
    /\ rc_strong = 0
    /\ cell = ZOf(0)
    /\ incs = 0
    /\ shared_read = NotCalled
    /\ sp_out = <<>>

(***************************************************************************)
(* impl_struct: a Rect (main's, or any other a caller can build) and calls *)
(* of its methods.                                                         *)
(***************************************************************************)
InitRect ==
    /\ bin = "impl_struct"
    /\ overflow_checks \in BOOLEAN
    /\ stdout_cap = Unlimited
    /\ aborted = FALSE
    /\ \E l \in U32Inputs, b \in U32Inputs : rect = Rect(l, b)
    /\ area_ret = NotCalled
    /\ peri_ret = NotCalled
    /\ first_area = NotCalled
    /\ first_peri = NotCalled
    /\ calls = 0
    /\ ShapeOff /\ PointOff /\ ConcOff /\ FileOff /\ SmartOff

\* area taking &mut self and keeping its result in the len field
CallAreaCaching ==
    /\ bin = "impl_struct"
    /\ ~aborted
    /\ calls < MaxCalls
    /\ area_ret' = area(rect, overflow_checks)
    /\ first_area' = IF first_area = NotCalled THEN area_ret' ELSE first_area
    /\ aborted' = (area_ret'.kind = "panic")
    /\ rect' = IF area_ret'.kind = "ok" THEN Rect(area_ret'.val, rect.breadth) ELSE rect
    /\ calls' = calls + 1
    /\ UNCHANGED <<buildVars, peri_ret, first_peri, shapeVars, pointVars, concVars, fileVars, smartVars>>

\* phone.area()
CallArea ==
    /\ bin = "impl_struct"
    /\ ~aborted
    /\ calls < MaxCalls
    /\ area_ret' = area(rect, overflow_checks)
    /\ first_area' = IF first_area = NotCalled THEN area_ret' ELSE first_area
    /\ aborted' = (area_ret'.kind = "panic")
    /\ calls' = calls + 1
    /\ UNCHANGED <<buildVars, rect, peri_ret, first_peri, shapeVars, pointVars, concVars, fileVars, smartVars>>

\* phone.peri()
CallPeri ==
    /\ bin = "impl_struct"
    /\ ~aborted
    /\ calls < MaxCalls
    /\ peri_ret' = peri(rect, overflow_checks)
    /\ first_peri' = IF first_peri = NotCalled THEN peri_ret' ELSE first_peri
    /\ aborted' = (peri_ret'.kind = "panic")
    /\ calls' = calls + 1
    /\ UNCHANGED <<buildVars, rect, area_ret, first_area, shapeVars, pointVars, concVars, fileVars, smartVars>>

NextRect == CallArea \/ CallPeri

SpecRect == InitRect /\ [][NextRect]_vars

(***************************************************************************)
(* enum_pt_match: a Shape (one of main's, or any other) passed by value to *)
(* calc_area.                                                              *)
(***************************************************************************)
InitShape ==
    /\ bin = "enum_pt_match"
    /\ overflow_checks \in BOOLEAN
    /\ stdout_cap = Unlimited
    /\ aborted = FALSE
    /\ shape \in ShapeInputs
    /\ area_val = NotCalled
    /\ RectOff /\ PointOff /\ ConcOff /\ FileOff /\ SmartOff

\* calc_area(shape)
CallCalcArea ==
    /\ bin = "enum_pt_match"
    /\ area_val = NotCalled
    /\ area_val' = calc_area(shape)
    /\ UNCHANGED <<buildVars, aborted, shape, rectVars, pointVars, concVars, fileVars, smartVars>>

NextShape == CallCalcArea

SpecShape == InitShape /\ [][NextShape]_vars

(***************************************************************************)
(* Point: a point built by Point::new and calls of its methods.            *)
(***************************************************************************)
InitPoint ==
    /\ bin = "point"
    /\ overflow_checks \in BOOLEAN
    /\ stdout_cap = Unlimited
    /\ aborted = FALSE
    /\ \E x \in I32Inputs, y \in I32Inputs : p = new(x, y)
    /\ p0 = p
    /\ sum_d = <<ZOf(0), ZOf(0)>>
    /\ wrapped = FALSE
    /\ tr_from = p
    /\ tr_d = <<ZOf(0), ZOf(0)>>
    /\ len_of = p
    /\ len_ret = NotCalled
    /\ ops = <<>>
    /\ RectOff /\ ShapeOff /\ ConcOff /\ FileOff /\ SmartOff

\* p.manhattan_len()
CallManhattanLen ==
    /\ bin = "point"
    /\ ~aborted
    /\ Len(ops) < MaxOps
    /\ len_of' = p
    /\ len_ret' = manhattan_len(p, overflow_checks)
    /\ aborted' = (len_ret'.kind = "panic")
    /\ ops' = <<"manhattan_len">> \o ops
    /\ UNCHANGED <<buildVars, p, p0, sum_d, wrapped, tr_from, tr_d,
                   rectVars, shapeVars, concVars, fileVars, smartVars>>

\* p.translate(dx, dy)
CallTranslate ==
    /\ bin = "point"
    /\ ~aborted
    /\ Len(ops) < MaxOps
    /\ \E d \in DeltaInputs :
          LET after == translate(p, d[1], d[2], overflow_checks)
          IN  /\ tr_from' = p
              /\ tr_d' = d
              /\ p' = after.self
              /\ aborted' = after.panic
              /\ sum_d' = <<ZAdd(sum_d[1], d[1]), ZAdd(sum_d[2], d[2])>>
              /\ wrapped' = (wrapped \/ ~InI32(ZAdd(p.x, d[1])) \/ ~InI32(ZAdd(p.y, d[2])))
    /\ ops' = <<"translate">> \o ops
    /\ UNCHANGED <<buildVars, p0, len_of, len_ret, rectVars, shapeVars, concVars, fileVars, smartVars>>

NextPoint == CallManhattanLen \/ CallTranslate

SpecPoint == InitPoint /\ [][NextPoint]_vars

(***************************************************************************)
(* concurrency(): the main thread and the thread it spawns.                *)
(***************************************************************************)
InitConc ==
    /\ bin = "concurrency"
    /\ overflow_checks \in BOOLEAN
    /\ stdout_cap = Unlimited
    /\ aborted = FALSE
    /\ main_pc = "channel"
    /\ thr_pc = "unborn"
    /\ chan = <<>>
    /\ senders = 0
    /\ receiver = FALSE
    /\ sleep_left = 0
    /\ msg = NotCalled
    /\ sent = 0
    /\ received = 0
    /\ RectOff /\ ShapeOff /\ PointOff /\ FileOff /\ SmartOff

\* let (tx, rx) = mpsc::channel::<String>();
MainChannel ==
    /\ bin = "concurrency"
    /\ main_pc = "channel"
    /\ chan' = <<>>
    /\ senders' = 1
    /\ receiver' = TRUE
    /\ main_pc' = "spawn"
    /\ UNCHANGED <<thr_pc, sleep_left, msg, sent, received, aborted>>
    /\ UNCHANGED offConc

\* let handle = thread::spawn(move || { ... });  tx moves into the closure
MainSpawn ==
    /\ bin = "concurrency"
    /\ main_pc = "spawn"
    /\ thr_pc' = "start"
    /\ main_pc' = "recv"
    /\ UNCHANGED <<chan, senders, receiver, sleep_left, msg, sent, received, aborted>>
    /\ UNCHANGED offConc

\* what a blocking recv does once it can return: the oldest message, or an
\* error when the channel is empty and every Sender is gone; unwrap panics
\* on the error, and the unwinding main thread drops rx
RecvReturns ==
    IF chan # <<>>
    THEN /\ msg' = Returned(Head(chan))
         /\ chan' = Tail(chan)
         /\ received' = received + 1
         /\ main_pc' = "print"
         /\ UNCHANGED <<receiver, aborted>>
    ELSE /\ msg' = RecvError
         /\ main_pc' = "panicked"
         /\ aborted' = TRUE
         /\ receiver' = FALSE
         /\ UNCHANGED <<chan, received>>

\* try_recv in place of recv: returns at once, with an error when the channel is empty
MainTryRecv ==
    /\ bin = "concurrency"
    /\ main_pc = "recv"
    /\ RecvReturns
    /\ UNCHANGED <<thr_pc, senders, sleep_left, sent>>
    /\ UNCHANGED offConc

\* rx.recv(): returns at once when it can, and parks the thread otherwise
MainRecv ==
    /\ bin = "concurrency"
    /\ main_pc = "recv"
    /\ IF chan # <<>> \/ senders = 0
       THEN RecvReturns
       ELSE /\ main_pc' = "parked"
            /\ UNCHANGED <<chan, msg, received, receiver, aborted>>
    /\ UNCHANGED <<thr_pc, senders, sleep_left, sent>>
    /\ UNCHANGED offConc

\* the parked recv is woken by a send or by the last Sender's drop
MainWake ==
    /\ bin = "concurrency"
    /\ main_pc = "parked"
    /\ chan # <<>> \/ senders = 0
    /\ RecvReturns
    /\ UNCHANGED <<thr_pc, senders, sleep_left, sent>>
    /\ UNCHANGED offConc

\* println!("got: {}", msg);  a failed write panics, and the unwinding main
\* thread drops rx and the JoinHandle
MainPrint ==
    /\ bin = "concurrency"
    /\ main_pc = "print"
    /\ IF PrintPanics(stdout_cap, 0, GotBytes(msg.val))
       THEN /\ aborted' = TRUE
            /\ receiver' = FALSE
            /\ main_pc' = "panicked"
       ELSE /\ main_pc' = "join"
            /\ UNCHANGED <<receiver, aborted>>
    /\ UNCHANGED <<thr_pc, chan, senders, sleep_left, msg, sent, received>>
    /\ UNCHANGED offConc

\* let _ = handle.join();  and the return, which drops rx
MainJoin ==
    /\ bin = "concurrency"
    /\ main_pc = "join"
    /\ thr_pc \in {"done", "panicked"}
    /\ main_pc' = "done"
    /\ receiver' = FALSE
    /\ UNCHANGED <<thr_pc, chan, senders, sleep_left, msg, sent, received, aborted>>
    /\ UNCHANGED offConc

\* the spawned thread starts running and calls thread::sleep
ThreadStart ==
    /\ bin = "concurrency"
    /\ thr_pc = "start"
    /\ thr_pc' = "sleep"
    /\ sleep_left' = SleepMillis
    /\ UNCHANGED <<main_pc, chan, senders, receiver, msg, sent, received, aborted>>
    /\ UNCHANGED offConc

\* a millisecond of the sleep passes
ThreadSleep ==
    /\ bin = "concurrency"
    /\ thr_pc = "sleep"
    /\ sleep_left > 0
    /\ sleep_left' = sleep_left - 1
    /\ UNCHANGED <<main_pc, thr_pc, chan, senders, receiver, msg, sent, received, aborted>>
    /\ UNCHANGED offConc

\* the sleep is over
ThreadWake ==
    /\ bin = "concurrency"
    /\ thr_pc = "sleep"
    /\ sleep_left = 0
    /\ thr_pc' = "send"
    /\ UNCHANGED <<main_pc, chan, senders, receiver, sleep_left, msg, sent, received, aborted>>
    /\ UNCHANGED offConc

\* tx.send("hello from thread".to_string()).unwrap();  send fails, and unwrap
\* panics, when the Receiver is gone
ThreadSend ==
    /\ bin = "concurrency"
    /\ thr_pc = "send"
    /\ IF receiver
       THEN /\ chan' = Append(chan, Hello)
            /\ sent' = sent + 1
            /\ thr_pc' = "exit"
       ELSE /\ thr_pc' = "unwind"
            /\ UNCHANGED <<chan, sent>>
    /\ UNCHANGED <<main_pc, senders, receiver, sleep_left, msg, received, aborted>>
    /\ UNCHANGED offConc

\* the closure ends (or unwinds) and drops tx
ThreadExit ==
    /\ bin = "concurrency"
    /\ thr_pc \in {"exit", "unwind"}
    /\ senders' = senders - 1
    /\ thr_pc' = IF thr_pc = "exit" THEN "done" ELSE "panicked"
    /\ UNCHANGED <<main_pc, chan, receiver, sleep_left, msg, sent, received, aborted>>
    /\ UNCHANGED offConc

MainStep == MainChannel \/ MainSpawn \/ MainRecv \/ MainWake \/ MainPrint \/ MainJoin

ThreadStep == ThreadStart \/ ThreadSleep \/ ThreadWake \/ ThreadSend \/ ThreadExit

NextConc == MainStep \/ ThreadStep

\* The operating system schedules every runnable thread again and again.
SpecConc == InitConc /\ [][NextConc]_vars /\ WF_vars(MainStep) /\ WF_vars(ThreadStep)

(***************************************************************************)
(* result: main reads rust.txt, whatever the path names when it runs.      *)
(***************************************************************************)
InitFile ==
    /\ bin = "result"
    /\ overflow_checks \in BOOLEAN
    /\ stdout_cap \in StdoutInputs
    /\ aborted = FALSE
    /\ \E f \in FileInputs : fs = [path \in {MainPath} |-> f]
    /\ io_fault \in BOOLEAN
    /\ ans = NotCalled
    /\ stdout = <<>>
    /\ RectOff /\ ShapeOff /\ PointOff /\ ConcOff /\ SmartOff

\* let ans = read_from_file_rust(String::from("rust.txt"));
CallReadFromFileRust ==
    /\ bin = "result"
    /\ ~aborted
    /\ ans = NotCalled
    /\ ans' = read_from_file_rust(fs, MainPath, io_fault)
    /\ aborted' = (ans'.kind = "panic")
    /\ UNCHANGED <<buildVars, fs, io_fault, stdout, rectVars, shapeVars, pointVars, concVars, smartVars>>

\* println!("{}", ans);  the line is written, or only the part of it that
\* standard output accepts and main panics
MainPrintln ==
    /\ bin = "result"
    /\ ~aborted
    /\ ans # NotCalled
    /\ stdout = <<>>
    /\ LET w == println(stdout, ans.val, stdout_cap)
       IN  /\ stdout' = w.out
           /\ aborted' = w.panic
    /\ UNCHANGED <<buildVars, fs, io_fault, ans, rectVars, shapeVars, pointVars, concVars, smartVars>>

NextFile == CallReadFromFileRust \/ MainPrintln

\* main runs to its end
SpecFile == InitFile /\ [][NextFile]_vars /\ WF_vars(NextFile)

(***************************************************************************)
(* smart_pointers(): the main thread and the thread that increments the    *)
(* shared counter.                                                         *)
(***************************************************************************)
InitSmart ==
    /\ bin = "smart_pointers"
    /\ overflow_checks \in BOOLEAN
    /\ stdout_cap = Unlimited
    /\ aborted = FALSE
    /\ sp_main = "box"
    /\ sp_thr = "unborn"
    /\ mutex = NoMutex
    /\ arc_strong = 0
    /\ rc_strong = 0
    /\ cell = ZOf(0)
    /\ incs = 0
    /\ shared_read = NotCalled
    /\ sp_out = <<>>
    /\ RectOff /\ ShapeOff /\ PointOff /\ ConcOff /\ FileOff

\* let b = Box::new(42); println!("boxed={}", *b);
SpBox ==
    /\ bin = "smart_pointers"
    /\ sp_main = "box"
    /\ IF PrintPanics(stdout_cap, OutBytes(sp_out), LineBytes(Line("boxed", ZOf(42))))
       THEN /\ aborted' = TRUE
            /\ sp_main' = "panicked"
            /\ UNCHANGED sp_out
       ELSE /\ sp_out' = Append(sp_out, Line("boxed", ZOf(42)))
            /\ sp_main' = "rc"
            /\ UNCHANGED aborted
    /\ UNCHANGED <<sp_thr, mutex, arc_strong, rc_strong, cell, incs, shared_read>>
    /\ UNCHANGED offSmart

\* let a = Rc::new(..); let a1 = a.clone(); let a2 = Rc::clone(&a);
\* println!("rc counts: strong={}", Rc::strong_count(&a));
SpRc ==
    /\ bin = "smart_pointers"
    /\ sp_main = "rc"
    /\ IF PrintPanics(stdout_cap, OutBytes(sp_out), LineBytes(Line("rc counts: strong", ZOf(1 + 1 + 1))))
       THEN /\ aborted' = TRUE
            /\ rc_strong' = 0
            /\ sp_main' = "panicked"
            /\ UNCHANGED sp_out
       ELSE /\ rc_strong' = 1 + 1 + 1
            /\ sp_out' = Append(sp_out, Line("rc counts: strong", ZOf(rc_strong')))
            /\ sp_main' = "cell"
            /\ UNCHANGED aborted
    /\ UNCHANGED <<sp_thr, mutex, arc_strong, cell, incs, shared_read>>
    /\ UNCHANGED offSmart

\* let cell = RefCell::new(0); *cell.borrow_mut() += 1;
\* println!("cell={}", cell.borrow());  a panic unwinds main, which drops
\* a2, a1 and a
SpCell ==
    /\ bin = "smart_pointers"
    /\ sp_main = "cell"
    /\ LET r == I32Op(ZAdd(ZOf(0), ZOf(1)), overflow_checks)
       IN  IF r.kind = "panic"
           THEN /\ aborted' = TRUE
                /\ rc_strong' = 0
                /\ sp_main' = "panicked"
                /\ UNCHANGED <<cell, sp_out>>
           ELSE IF PrintPanics(stdout_cap, OutBytes(sp_out), LineBytes(Line("cell", r.val)))
           THEN /\ cell' = r.val
                /\ aborted' = TRUE
                /\ rc_strong' = 0
                /\ sp_main' = "panicked"
                /\ UNCHANGED sp_out
           ELSE /\ cell' = r.val
                /\ sp_out' = Append(sp_out, Line("cell", r.val))
                /\ sp_main' = "arc"
                /\ UNCHANGED <<rc_strong, aborted>>
    /\ UNCHANGED <<sp_thr, mutex, arc_strong, incs, shared_read>>
    /\ UNCHANGED offSmart

\* let shared = Arc::new(Mutex::new(0));
SpArcNew ==
    /\ bin = "smart_pointers"
    /\ sp_main = "arc"
    /\ mutex' = MutexNew(ZOf(0))
    /\ arc_strong' = 1
    /\ sp_main' = "clone"
    /\ UNCHANGED <<sp_thr, rc_strong, cell, incs, shared_read, sp_out, aborted>>
    /\ UNCHANGED offSmart

\* let s1 = Arc::clone(&shared);
SpArcClone ==
    /\ bin = "smart_pointers"
    /\ sp_main = "clone"
    /\ arc_strong' = arc_strong + 1
    /\ sp_main' = "spawn"
    /\ UNCHANGED <<sp_thr, mutex, rc_strong, cell, incs, shared_read, sp_out, aborted>>
    /\ UNCHANGED offSmart

\* let t = thread::spawn(move || { ... });  s1 moves into the closure
SpSpawn ==
    /\ bin = "smart_pointers"
    /\ sp_main = "spawn"
    /\ sp_thr' = "lock"
    /\ sp_main' = "join"
    /\ UNCHANGED <<mutex, arc_strong, rc_strong, cell, incs, shared_read, sp_out, aborted>>
    /\ UNCHANGED offSmart

\* a join that returns at once, whether or not the thread has ended
SpJoinDetached ==
    /\ bin = "smart_pointers"
    /\ sp_main = "join"
    /\ sp_main' = "lock"
    /\ UNCHANGED <<sp_thr, mutex, arc_strong, rc_strong, cell, incs, shared_read, sp_out, aborted>>
    /\ UNCHANGED offSmart

\* let _ = t.join();  returns once the thread has ended; its result is dropped
SpJoin ==
    /\ bin = "smart_pointers"
    /\ sp_main = "join"
    /\ sp_thr \in {"done", "panicked"}
    /\ sp_main' = "lock"
    /\ UNCHANGED <<sp_thr, mutex, arc_strong, rc_strong, cell, incs, shared_read, sp_out, aborted>>
    /\ UNCHANGED offSmart

\* shared.lock().unwrap() and the read of *guard; the unwrap of a poisoned
\* lock panics, and the unwinding main thread drops shared and the Rcs
SpMainLock ==
    /\ bin = "smart_pointers"
    /\ sp_main = "lock"
    /\ CanLock(mutex)
    /\ IF LockPanics(mutex)
       THEN /\ aborted' = TRUE
            /\ arc_strong' = arc_strong - 1
            /\ rc_strong' = 0
            /\ sp_main' = "panicked"
            /\ UNCHANGED <<mutex, shared_read>>
       ELSE /\ mutex' = Locked(mutex, "main")
            /\ shared_read' = Returned(mutex.val)
            /\ sp_main' = "print"
            /\ UNCHANGED <<arc_strong, rc_strong, aborted>>
    /\ UNCHANGED <<sp_thr, cell, incs, sp_out>>
    /\ UNCHANGED offSmart

\* println!("shared={}", ..);  the guard is dropped at the end of the
\* statement, or while main unwinds from a failed write, which also drops
\* shared and the Rcs
SpMainPrint ==
    /\ bin = "smart_pointers"
    /\ sp_main = "print"
    /\ IF PrintPanics(stdout_cap, OutBytes(sp_out), LineBytes(Line("shared", shared_read.val)))
       THEN /\ aborted' = TRUE
            /\ mutex' = Unlocked(mutex, TRUE)
            /\ arc_strong' = arc_strong - 1
            /\ rc_strong' = 0
            /\ sp_main' = "panicked"
            /\ UNCHANGED sp_out
       ELSE /\ sp_out' = Append(sp_out, Line("shared", shared_read.val))
            /\ mutex' = Unlocked(mutex, FALSE)
            /\ sp_main' = "return"
            /\ UNCHANGED <<arc_strong, rc_strong, aborted>>
    /\ UNCHANGED <<sp_thr, cell, incs, shared_read>>
    /\ UNCHANGED offSmart

\* the function returns and drops shared, a2, a1 and a
SpReturn ==
    /\ bin = "smart_pointers"
    /\ sp_main = "return"
    /\ arc_strong' = arc_strong - 1
    /\ rc_strong' = 0
    /\ sp_main' = "done"
    /\ UNCHANGED <<sp_thr, mutex, cell, incs, shared_read, sp_out, aborted>>
    /\ UNCHANGED offSmart

\* let mut g = s1.lock().unwrap();
SpThreadLock ==
    /\ bin = "smart_pointers"
    /\ sp_thr = "lock"
    /\ CanLock(mutex)
    /\ IF LockPanics(mutex)
       THEN /\ sp_thr' = "unwind"
            /\ UNCHANGED mutex
       ELSE /\ mutex' = Locked(mutex, "thread")
            /\ sp_thr' = "incr"
    /\ UNCHANGED <<sp_main, arc_strong, rc_strong, cell, incs, shared_read, sp_out, aborted>>
    /\ UNCHANGED offSmart

\* *g += 1;
SpThreadIncr ==
    /\ bin = "smart_pointers"
    /\ sp_thr = "incr"
    /\ LET r == I32Op(ZAdd(mutex.val, ZOf(1)), overflow_checks)
       IN  IF r.kind = "panic"
           THEN /\ sp_thr' = "unwind_locked"
                /\ UNCHANGED <<mutex, incs>>
           ELSE /\ mutex' = [mutex EXCEPT !.val = r.val]
                /\ incs' = incs + 1
                /\ sp_thr' = "unlock"
    /\ UNCHANGED <<sp_main, arc_strong, rc_strong, cell, shared_read, sp_out, aborted>>
    /\ UNCHANGED offSmart

\* g is dropped where the closure ends, or while it unwinds
SpThreadUnlock ==
    /\ bin = "smart_pointers"
    /\ sp_thr \in {"unlock", "unwind_locked"}
    /\ mutex' = Unlocked(mutex, sp_thr = "unwind_locked")
    /\ sp_thr' = IF sp_thr = "unlock" THEN "exit" ELSE "unwind"
    /\ UNCHANGED <<sp_main, arc_strong, rc_strong, cell, incs, shared_read, sp_out, aborted>>
    /\ UNCHANGED offSmart

\* s1 is dropped and the thread ends
SpThreadExit ==
    /\ bin = "smart_pointers"
    /\ sp_thr \in {"exit", "unwind"}
    /\ arc_strong' = arc_strong - 1
    /\ sp_thr' = IF sp_thr = "exit" THEN "done" ELSE "panicked"
    /\ UNCHANGED <<sp_main, mutex, rc_strong, cell, incs, shared_read, sp_out, aborted>>
    /\ UNCHANGED offSmart

SpMainStep ==
    SpBox \/ SpRc \/ SpCell \/ SpArcNew \/ SpArcClone \/ SpSpawn \/ SpJoin
        \/ SpMainLock \/ SpMainPrint \/ SpReturn

SpThreadStep == SpThreadLock \/ SpThreadIncr \/ SpThreadUnlock \/ SpThreadExit

NextSmart == SpMainStep \/ SpThreadStep

SpecSmart ==
    InitSmart /\ [][NextSmart]_vars /\ WF_vars(SpMainStep) /\ WF_vars(SpThreadStep)

(***************************************************************************)
(* The two functions of cursor_notes.rs that spawn a thread, each run on   *)
(* its own, every runnable thread being scheduled again and again.         *)
(***************************************************************************)
InitThreads == InitConc \/ InitSmart

NextThreads == NextConc \/ NextSmart

SpecThreads ==
    /\ InitThreads
    /\ [][NextThreads]_vars
    /\ WF_vars(MainStep)
    /\ WF_vars(ThreadStep)
    /\ WF_vars(SpMainStep)
    /\ WF_vars(SpThreadStep)

(***************************************************************************)
(* Any one of the programs.                                                *)
(***************************************************************************)
Init == InitRect \/ InitShape \/ InitPoint \/ InitConc \/ InitFile \/ InitSmart

Next == NextRect \/ NextShape \/ NextPoint \/ NextConc \/ NextFile \/ NextSmart

Spec == Init /\ [][Next]_vars

(***************************************************************************)
(* Properties of impl_struct, checked under SpecRect.                      *)
(***************************************************************************)
\* the mathematical values L*B and 2*(L+B) of a record
ExactArea(r) == BMul(r.len, r.breadth)
ExactPeri(r) == BMul(FromNat(2), BAdd(r.len, r.breadth))
FitsU32(v) == BLeq(v, U32Max)

\* C1: whenever L*B does not exceed 2^32-1, area returns L*B (for small L and
\* B: the product as the integers compute it), and main's record {20, 40}
\* yields 800.
C1_AreaIsProduct ==
    area_ret # NotCalled =>
        /\ FitsU32(ExactArea(rect)) => area_ret = Returned(ExactArea(rect))
        /\ \A l, b \in 0..MaxSmall :
              rect = Rect(FromNat(l), FromNat(b)) => area_ret = Returned(FromNat(l * b))
        /\ rect = MainRect => area_ret = Returned(FromNat(800))

C1_Witness == rect = MainRect /\ area_ret = Returned(FromNat(800))

\* C2 as stated: for all u32 L and B, peri returns 2*(L+B).
C2_PeriIsDoubleSum ==
    peri_ret # NotCalled => peri_ret = Returned(ExactPeri(rect))

\* C2, amended: whenever 2*(L+B) does not exceed 2^32-1, peri returns 2*(L+B)
\* (for small L and B: the value as the integers compute it), and main's
\* record {20, 40} yields 120.
C2_PeriIsDoubleSumInRange ==
    peri_ret # NotCalled =>
        /\ FitsU32(ExactPeri(rect)) => peri_ret = Returned(ExactPeri(rect))
        /\ \A l, b \in 0..MaxSmall :
              rect = Rect(FromNat(l), FromNat(b)) => peri_ret = Returned(FromNat(2 * (l + b)))
        /\ rect = MainRect => peri_ret = Returned(FromNat(120))

C2_Witness == rect = MainRect /\ peri_ret = Returned(FromNat(120))

\* C6: no call of area or peri changes the record, and every call of an
\* operation returns what the first call of that operation returned.
C6_PureQueries ==
    /\ [][rect' = rect]_vars
    /\ [](first_area # NotCalled => area_ret = first_area)
    /\ [](first_peri # NotCalled => peri_ret = first_peri)
    /\ [][/\ first_area # NotCalled => area_ret' = first_area
          /\ first_peri # NotCalled => peri_ret' = first_peri]_vars

C6_Witness ==
    /\ calls >= 3
    /\ first_area.kind = "ok" /\ area_ret = first_area
    /\ first_peri.kind = "ok" /\ peri_ret = first_peri
    /\ rect = MainRect

\* C10: area returns the mathematical L*B exactly when L*B <= 2^32-1 and peri
\* the mathematical 2*(L+B) exactly when 2*(L+B) <= 2^32-1, in which case L+B
\* fits too; on every other input the overflow goes unhandled (a panic with
\* overflow checks, the value modulo 2^32 without), and nothing else makes a
\* call fail.
C10_OverflowOnly ==
    /\ area_ret # NotCalled =>
          /\ (area_ret = Returned(ExactArea(rect))) <=> FitsU32(ExactArea(rect))
          /\ ~FitsU32(ExactArea(rect)) =>
                area_ret = IF overflow_checks THEN Panicked
                           ELSE Returned(WrapU32(ExactArea(rect)))
    /\ peri_ret # NotCalled =>
          /\ (peri_ret = Returned(ExactPeri(rect))) <=> FitsU32(ExactPeri(rect))
          /\ ~FitsU32(ExactPeri(rect)) =>
                peri_ret = IF overflow_checks THEN Panicked
                           ELSE Returned(WrapU32(ExactPeri(rect)))
    /\ FitsU32(ExactPeri(rect)) => FitsU32(BAdd(rect.len, rect.breadth))
    /\ aborted =>
          \/ area_ret = Panicked /\ ~FitsU32(ExactArea(rect))
          \/ peri_ret = Panicked /\ ~FitsU32(ExactPeri(rect))

C10_Witness ==
    /\ rect = Rect(Pow2(U32Bits - 1), Pow2(U32Bits - 1))
    /\ area_ret = Returned(<<>>)
    /\ peri_ret = Returned(<<>>)

(***************************************************************************)
(* Properties of enum_pt_match, checked under SpecShape.                   *)
(***************************************************************************)
\* C3: for non-negative w and h, calc_area(Rect(w, h)) returns the f64
\* product w*h (for whole w and h up to MaxDim: the f64 of the product the
\* integers compute), and Rect(2.0, 4.0) yields 8.0.
C3_RectArea ==
    (area_val # NotCalled /\ shape.tag = "Rect" /\ FNonNeg(shape.a) /\ FNonNeg(shape.b)) =>
        /\ area_val = Returned(FMul(shape.a, shape.b))
        /\ \A w, h \in 0..MaxDim :
              shape = ShapeRect(F64Lit(w, 0), F64Lit(h, 0))
                  => area_val = Returned(F64Lit(w * h, 0))
        /\ shape = ShapeRect(F64Lit(20, 1), F64Lit(40, 1))
              => area_val = Returned(F64Lit(80, 1))

C3_Witness ==
    /\ shape = ShapeRect(F64Lit(20, 1), F64Lit(40, 1))
    /\ area_val = Returned(F64Lit(80, 1))

\* C4: for non-negative r, calc_area(Circle(r)) returns (3.14 * r) * r in f64
\* with the literal 3.14 as the constant, and Circle(7.0) yields 153.86.
C4_CircleArea ==
    (area_val # NotCalled /\ shape.tag = "Circle" /\ FNonNeg(shape.r)) =>
        /\ area_val = Returned(FMul(FMul(F64Lit(314, 2), shape.r), shape.r))
        /\ shape = ShapeCircle(F64Lit(10, 1)) => area_val = Returned(F64Lit(314, 2))
        /\ shape = ShapeCircle(F64Lit(70, 1)) => area_val = Returned(F64Lit(15386, 2))

C4_Witness ==
    /\ shape = ShapeCircle(F64Lit(70, 1))
    /\ area_val = Returned(F64Lit(15386, 2))

\* the fields of a Shape
Dims(sh) == IF sh.tag = "Rect" THEN {sh.a, sh.b} ELSE {sh.r}

\* C5: for every Shape, zero and negative dimensions included, exactly one
\* arm of the match applies and the call returns an f64 (a number whenever
\* the dimensions are finite): no input is left unmatched and none fails.
C5_Exhaustive ==
    /\ Cardinality(MatchingArms(shape)) = 1
    /\ ~aborted
    /\ area_val # NotCalled =>
          /\ area_val.kind = "ok"
          /\ IsF64(area_val.val)
          /\ (\A d \in Dims(shape) : d.cls \in {"zero", "fin"}) => area_val.val.cls # "nan"

C5_Witness ==
    /\ shape = ShapeRect(FNeg(F64Lit(2, 0)), FZero(TRUE))
    /\ area_val = Returned(FZero(FALSE))

(***************************************************************************)
(* Properties of Point, checked under SpecPoint.                           *)
(***************************************************************************)
\* the point that is from moved by <<dx, dy>> in the integers
Moved(from, d) == Point(ZAdd(from.x, d[1]), ZAdd(from.y, d[2]))
InRange(pt) == InI32(pt.x) /\ InI32(pt.y)
ExactManhattan(pt) == ZAdd(ZAbs(pt.x), ZAbs(pt.y))
TestPoint == Point(ZOf(1), ZOf(2))

\* C7 as stated: every translate sets the point to (x+dx, y+dy), and the
\* point is always the initial point plus the sums of the deltas.
C7_TranslateAdds ==
    /\ (ops # <<>> /\ Head(ops) = "translate") => p = Moved(tr_from, tr_d)
    /\ p = Moved(p0, sum_d)

\* C7, amended: a translate whose x+dx and y+dy both fit in i32 returns,
\* sets the point to (x+dx, y+dy) and changes nothing else; as long as no
\* translate has left the i32 range, the point is the initial point plus the
\* sums of the deltas; and Point(1,2) translated by (1,-3) is Point{x:2, y:-1}.
C7_TranslateAddsInRange ==
    /\ (ops # <<>> /\ Head(ops) = "translate" /\ InRange(Moved(tr_from, tr_d))) =>
          /\ p = Moved(tr_from, tr_d)
          /\ ~aborted
    /\ ~wrapped => p = Moved(p0, sum_d)
    /\ (ops # <<>> /\ Head(ops) = "translate" /\ tr_from = TestPoint
            /\ tr_d = <<ZOf(1), ZOf(-3)>>) => p = Point(ZOf(2), ZOf(-1))

C7_Witness ==
    /\ p0 = TestPoint
    /\ ops = <<"translate", "manhattan_len">>
    /\ tr_d = <<ZOf(1), ZOf(-3)>>
    /\ p = Point(ZOf(2), ZOf(-1))

\* C8 as stated: manhattan_len returns |x| + |y| for the point it is called on.
C8_ManhattanLen ==
    len_ret # NotCalled => len_ret = Returned(ExactManhattan(len_of))

\* C8, amended: manhattan_len returns |x| + |y| whenever that sum fits in i32
\* (3 for Point(1,2)); it leaves the point unchanged in every case, so a
\* translate that follows it starts from the coordinates it was called on.
C8_ManhattanLenInRange ==
    /\ (len_ret # NotCalled /\ InI32(ExactManhattan(len_of))) =>
          len_ret = Returned(ExactManhattan(len_of))
    /\ (len_ret # NotCalled /\ len_of = TestPoint) => len_ret = Returned(ZOf(3))
    /\ (ops # <<>> /\ Head(ops) = "manhattan_len") => p = len_of
    /\ (Len(ops) >= 2 /\ ops[1] = "translate" /\ ops[2] = "manhattan_len") =>
          tr_from = len_of

C8_Witness ==
    /\ len_of = TestPoint
    /\ len_ret = Returned(ZOf(3))
    /\ ops = <<"manhattan_len">>
    /\ p = TestPoint

(***************************************************************************)
(* Properties of concurrency(), checked under SpecConc.                    *)
(***************************************************************************)
\* at most one message is sent and received, none is received before it is
\* sent, recv returns no error, and the function returns only after the
\* thread has sent, the message has been received and the thread has ended
OneMessageSafety ==
    /\ sent <= 1
    /\ received <= sent
    /\ msg # RecvError
    /\ ~aborted
    /\ msg # NotCalled => msg = Returned(Hello) /\ received = 1
    /\ main_pc \in {"print", "join", "done"} => msg = Returned(Hello)
    /\ main_pc = "done" => thr_pc = "done" /\ sent = 1 /\ received = 1 /\ chan = <<>>

ReadSucceeds ==
    /\ fs[MainPath].kind = "file"
    /\ ~io_fault
    /\ IsUtf8(fs[MainPath].bytes)

\* what read_from_file_rust returned: the contents when the read succeeds,
\* "File not present!" on every read error, never a panic or an error
ReadResult ==
    ans # NotCalled =>
        /\ ReadSucceeds => ans = Returned(fs[MainPath].bytes)
        /\ ~ReadSucceeds => ans = Returned(FileNotPresent)
        /\ fs[MainPath] = File(<<195, 169, 97>>) /\ ~io_fault => ans = Returned(<<195, 169, 97>>)
        /\ fs[MainPath] = File(<<97, 169>>) => ans = Returned(FileNotPresent)

\* main has printed one of the two strings, the one returned, and a newline
PrintedOne ==
    /\ ans # NotCalled
    /\ stdout = ans.val \o <<10>>
    /\ stdout \in {fs[MainPath].bytes \o <<10>>, FileNotPresent \o <<10>>}

\* the line main is to print, and whether standard output takes all of it
ExpectedLine == (IF ReadSucceeds THEN fs[MainPath].bytes ELSE FileNotPresent) \o <<10>>
WriteSucceeds == ~PrintPanics(stdout_cap, 0, Len(ExpectedLine))

\* C11 as stated: read_from_file_rust returns the contents or the fallback,
\* nothing panics, and main always prints exactly one of the two strings.
C11_AlwaysPrints ==
    /\ []ReadResult
    /\ [](~aborted)
    /\ [](stdout # <<>> => PrintedOne)
    /\ <>PrintedOne

\* C11, amended: read_from_file_rust returns the file's contents when the
\* read succeeds and "File not present!" on every read error, and never
\* panics or passes an error on; whenever the write to standard output
\* succeeds main prints exactly one of the two strings, and main panics
\* only when that write fails, after the function has returned.
C11_PrintsWhenWritable ==
    /\ []ReadResult
    /\ [](aborted => ~WriteSucceeds /\ ans # NotCalled /\ ans.kind = "ok")
    /\ []((~aborted /\ stdout # <<>>) => (WriteSucceeds /\ PrintedOne))
    /\ WriteSucceeds ~> (PrintedOne /\ ~aborted)

C11_Witness ==
    /\ fs[MainPath] = File(<<97, 169>>)
    /\ stdout_cap = Room(18)
    /\ ans = Returned(FileNotPresent)
    /\ stdout = FileNotPresent \o <<10>>
    /\ ~aborted

(***************************************************************************)
(* Properties of smart_pointers, checked under SpecThreads.                *)
(***************************************************************************)
\* the counter is the number of increments made, at most one; it is 0 until
\* the thread holds the lock; the thread is between lock and unlock only
\* while it holds the mutex; the main thread is past the join only when the
\* thread has ended and released the mutex; and what it reads is 1
SharedCounterSafety ==
    bin = "smart_pointers" =>
        /\ ~aborted
        /\ ~mutex.poisoned
        /\ incs \in {0, 1}
        /\ mutex.val = ZOf(incs)
        /\ sp_main \in {"clone", "spawn"} => mutex.val = ZOf(0)
        /\ sp_thr \in {"unborn", "lock"} => mutex.val = ZOf(0)
        /\ sp_thr \in {"incr", "unlock"} <=> mutex.holder = "thread"
        /\ sp_main = "lock" => sp_thr = "done" /\ incs = 1 /\ CanLock(mutex)
        /\ shared_read # NotCalled => shared_read = Returned(ZOf(1))
        /\ sp_main = "done" =>
              /\ sp_out[Len(sp_out)] = Line("shared", ZOf(1))
              /\ arc_strong = 0

\* the counter changes only by the thread's one increment, made while the
\* thread holds the lock
IncrementUnderLock ==
    (bin = "smart_pointers" /\ sp_main \notin {"box", "rc", "cell", "arc"} /\ mutex'.val # mutex.val) =>
        /\ mutex.holder = "thread"
        /\ mutex'.holder = "thread"
        /\ mutex.val = ZOf(0)
        /\ mutex'.val = ZOf(1)

\* C12: the shared counter starts at 0, the spawned thread increments it
\* exactly once while holding the lock, and because the main thread joins
\* before it locks, under every fair interleaving the main thread gets the
\* lock, reads 1 and the function returns.
C12_JoinThenReadOne ==
    /\ []SharedCounterSafety
    /\ [][IncrementUnderLock]_vars
    /\ (bin = "smart_pointers") ~> (sp_thr = "done" /\ incs = 1)
    /\ (bin = "smart_pointers") ~> (sp_main = "done" /\ shared_read = Returned(ZOf(1)))

C12_Witness ==
    /\ bin = "smart_pointers"
    /\ sp_main = "done"
    /\ sp_thr = "done"
    /\ incs = 1
    /\ shared_read = Returned(ZOf(1))
    /\ mutex = MutexNew(ZOf(1))

====
